---- MODULE Spec2Model ----
(***************************************************************************)
(* A model of rubyexec (src/rubyexec.c): the launcher that parses a        *)
(* comma-separated list of Ruby implementation names, resolves the         *)
(* sibling "ruby" symlink, selects a binary and execs it.                   *)
(*                                                                         *)
(* A C string is a sequence of atoms: an atom is "/" or "," or a word that *)
(* contains neither.  strcmp equality is equality of the sequences; the    *)
(* words are chosen so that no concatenation of atoms spells another word. *)
(* argv[i] of the C program is argv[i+1] here (sequences start at 1).      *)
(***************************************************************************)
EXTENDS Integers, Sequences, FiniteSets, TLC

\* ------------------------------------------------------------- bounds
\* Tokens in a generated spec argument of the launcher runs.
MaxTokens == 3
\* Arguments that follow the spec argument.
MaxExtra == 2
\* Atoms in a spec argument of the parser runs.
MaxSpecLen == 5
\* Repetitions of a pattern in the long spec arguments of the parser runs.
MaxRepeat == 18

\* ---------------------------------------------------------- constants
NULL == <<"<null>">>

MAX_PATH_SIZE == 1024

SizeofPtr == 8

IMPLEMENTATIONS ==
  << <<"ruby18">>, <<"ruby19">>, <<"ruby20">>, <<"ruby21">>, <<"ruby22">>,
     <<"ruby23">>, <<"ruby24">>, <<"ruby25">>, <<"ruby26">>, <<"ruby27">>,
     <<"ruby30">>, <<"ruby31">>, <<"ruby32">>, <<"ruby33">>, <<"jruby">>,
     <<"rbx">>, NULL >>

SizeofImplementations == Len(IMPLEMENTATIONS) * SizeofPtr

AUTOPICK == <<"--autopick">>

MsgUsage == "Usage: %s impl,... [args]"
MsgArgs == "Invalid number of arguments."
MsgAlloc == "Unable to allocate memory: %s"
MsgResolve == "Failed to resolve %s: %s"
MsgTooLong == "Resolved path of %s is too long."
MsgNoValid == "No valid implementations found."
MsgNoUsable == "No usable implementations found."
MsgUnsupported == "Script does not support currently selected Ruby implementation."
MsgExec == "%s failed to execute: %s"

PROC_SELF_EXE == <<"/", "proc", "/", "self", "/", "exe">>

\* ------------------------------------------------------ string helpers
RECURSIVE Strconcat(_)
Strconcat(strs) ==
  IF strs = <<>> THEN <<>> ELSE Head(strs) \o Strconcat(Tail(strs))

RECURSIVE StripSlashes(_)
StripSlashes(s) ==
  IF s # <<>> /\ s[Len(s)] = "/" THEN StripSlashes(SubSeq(s, 1, Len(s) - 1)) ELSE s

LastSlash(s) ==
  LET idx == {i \in 1..Len(s) : s[i] = "/"}
  IN IF idx = {} THEN 0 ELSE CHOOSE i \in idx : \A j \in idx : j <= i

\* dirname(3): NULL or "" give ".", a path of slashes gives "/".
Dirname(path) ==
  IF path = NULL \/ path = <<>> THEN <<".">>
  ELSE LET s == StripSlashes(path)
       IN IF s = <<>> THEN <<"/">>
          ELSE IF LastSlash(s) = 0 THEN <<".">>
          ELSE LET d == StripSlashes(SubSeq(s, 1, LastSlash(s)))
               IN IF d = <<>> THEN <<"/">> ELSE d

\* A basename that leaves the path as it is.
Basename_whole(path) == IF path = NULL \/ path = <<>> THEN <<".">> ELSE path

\* basename(3) of <libgen.h>: NULL or "" give ".", trailing slashes are dropped.
Basename(path) ==
  IF path = NULL \/ path = <<>> THEN <<".">>
  ELSE LET s == StripSlashes(path)
       IN IF s = <<>> THEN <<"/">>
          ELSE SubSeq(s, LastSlash(s) + 1, Len(s))

\* in(): scan the array up to its NULL entry.
RECURSIVE InFrom(_, _, _)
InFrom(arr, i, str) ==
  IF i > Len(arr) THEN FALSE
  ELSE IF arr[i] = NULL THEN FALSE
  ELSE IF arr[i] = str THEN TRUE
  ELSE InFrom(arr, i + 1, str)

In(null_terminated, str) == InFrom(null_terminated, 1, str)

\* strtok(s, ","): skip delimiters, cut the token at the next delimiter and
\* remember the position after it.
RECURSIVE SkipDelims(_)
SkipDelims(s) ==
  IF s # <<>> /\ Head(s) = "," THEN SkipDelims(Tail(s)) ELSE s

RECURSIVE TokenLen(_)
TokenLen(s) ==
  IF s = <<>> \/ Head(s) = "," THEN 0 ELSE 1 + TokenLen(Tail(s))

\* A strtok that gives up at an empty token instead of skipping delimiters.
Strtok_stop(s) ==
  LET n == TokenLen(s)
  IN IF n = 0 THEN [tok |-> NULL, rest |-> <<>>]
     ELSE [tok |-> SubSeq(s, 1, n), rest |-> SubSeq(s, n + 2, Len(s))]

Strtok(s) ==
  LET t == SkipDelims(s)
      n == TokenLen(t)
  IN IF t = <<>> THEN [tok |-> NULL, rest |-> <<>>]
     ELSE [tok |-> SubSeq(t, 1, n), rest |-> SubSeq(t, n + 2, Len(t))]

\* ---------------------------------------------------------- filesystem
\* A filesystem: link maps the paths that are symbolic links to what readlink
\* finds there (the target and its length in bytes), files is the set of
\* paths that are regular files.
LinkTo(t, n) == [ok |-> TRUE, len |-> n, target |-> t]

LinkFail == [ok |-> FALSE, len |-> 0, target |-> <<>>]

ExePath == <<"/", "opt", "/", "rubyexec">>

ExeDir == <<"/", "opt">>

RubyLink == <<"/", "opt", "/", "ruby">>

CwdRubyLink == <<".", "/", "ruby">>

Sibling(dir, name) == dir \o <<"/">> \o name

UsrRuby30 == <<"/", "usr", "/", "ruby30">>

LongTarget == <<"/", "long", "/", "ruby27">>

\* readlink(2) on path: the link's record, or a failure when path is no link.
Readlink(f, path) == IF path \in DOMAIN f.link THEN f.link[path] ELSE LinkFail

\* What readlink(path, buf, sizeof(buf)) returns: -1, or the bytes placed in
\* buf, at most sizeof(buf).
ReadlinkSize(r) ==
  IF ~r.ok THEN -1
  ELSE IF r.len > MAX_PATH_SIZE THEN MAX_PATH_SIZE ELSE r.len

\* A link's target seen from the link's directory.
Anchor(linkpath, target) ==
  IF target # <<>> /\ Head(target) = "/" THEN target
  ELSE Dirname(linkpath) \o <<"/">> \o target

\* The fully dereferenced path (realpath(3)): follow links until a path that
\* is not a link.
RECURSIVE RealPath(_, _, _)
RealPath(f, path, seen) ==
  IF path \in DOMAIN f.link /\ path \notin seen
  THEN RealPath(f, Anchor(path, f.link[path].target), seen \cup {path})
  ELSE path

\* access(path, F_OK) == 0: the path, links followed, is a file.
Access(f, path) == RealPath(f, path, {}) \in f.files

\* ------------------------------------------------------------- inputs
SpecWords == {<<"ruby27">>, <<"ruby30">>, AUTOPICK, <<"x">>}

LaunchWords == {<<"ruby27">>, <<"ruby30">>, AUTOPICK}

ArgWords == {<<"a">>, <<"b">>}

SeqsUpTo(S, n) == UNION {[1..k -> S] : k \in 0..n}

RECURSIVE JoinComma(_)
JoinComma(toks) ==
  IF toks = <<>> THEN <<>>
  ELSE IF Len(toks) = 1 THEN toks[1]
  ELSE toks[1] \o <<",">> \o JoinComma(Tail(toks))

\* The spec arguments of the launcher runs: up to MaxTokens words joined by
\* commas, and the two help options.
SpecArgs ==
  {JoinComma(t) : t \in SeqsUpTo(LaunchWords, MaxTokens)}
    \cup {<<"-h">>, <<"--help">>}

Argvs ==
  {<<>>, <<ExePath>>}
    \cup {<<ExePath, s>> \o t : s \in SpecArgs, t \in SeqsUpTo(ArgWords, MaxExtra)}

BaseLinks == (CwdRubyLink :> LinkTo(<<"ruby30">>, 6))

RubyTargets ==
  {LinkTo(<<"ruby27">>, 6), LinkTo(UsrRuby30, 11),
   LinkTo(LongTarget, MAX_PATH_SIZE - 1), LinkTo(LongTarget, MAX_PATH_SIZE)}

\* /opt/ruby is absent or one of RubyTargets; /opt/ruby27 is a file, absent,
\* or itself a link to ruby30; /opt/ruby30 is a file or absent.
FsCandidates ==
  {[link |-> BaseLinks, files |-> {UsrRuby30}]}
    \cup
  {[link |-> (PROC_SELF_EXE :> LinkTo(ExePath, 13)) @@ l @@ c @@ BaseLinks,
    files |-> {UsrRuby30, LongTarget} \cup fl] :
      l \in {BaseLinks} \cup {(RubyLink :> r) : r \in RubyTargets},
      c \in {BaseLinks, (Sibling(ExeDir, <<"ruby27">>) :> LinkTo(<<"ruby30">>, 6))},
      fl \in SUBSET {Sibling(ExeDir, <<"ruby27">>), Sibling(ExeDir, <<"ruby30">>)}}

FsStates == {f \in FsCandidates : DOMAIN f.link \cap f.files = {}}

\* -------------------------------------------------------------- state
VARIABLES
  pc,                     \* position in main and its callees
  argv,                   \* the argument vector; argc is its length
  fs,                     \* the filesystem the run sees
  valid_implementations,  \* the slots written in the preference array
  vi_alloc,               \* bytes allocated for the preference array
  p,                      \* get_valid_implementations_and_options' cursor
  autopick,               \* options.autopick
  strtok_save,            \* strtok's saved position
  rubyexec, rubyexec_dir, ruby, resolved_ruby, selected_impl, impl_path,
  ap,                     \* autopick_implementation's cursor
  new_argv,               \* the vector create_new_argv returns
  na_alloc,               \* bytes allocated for new_argv
  na_writes,              \* slots of new_argv written
  status, msg,            \* exit status and message of a run that ended
  exec_call,              \* the execv call made, if any
  readlinks, accesses,    \* paths given to readlink and to access, in order
  null_alloc              \* some malloc or strdup has returned NULL

parse_vars == <<valid_implementations, vi_alloc, p, autopick, strtok_save>>
path_vars == <<rubyexec, rubyexec_dir, ruby, resolved_ruby, selected_impl>>
argv_vars == <<new_argv, na_alloc, na_writes>>
vars == <<pc, argv, fs, parse_vars, path_vars, impl_path, ap, argv_vars,
          status, msg, exec_call, readlinks, accesses, null_alloc>>

NoExec == [called |-> FALSE, path |-> <<>>, argv |-> <<>>]

InitRest ==
  /\ pc = "main"
  /\ valid_implementations = <<>>
  /\ vi_alloc = 0
  /\ p = 0
  /\ autopick = FALSE
  /\ strtok_save = <<>>
  /\ rubyexec = <<>>
  /\ rubyexec_dir = <<>>
  /\ ruby = <<>>
  /\ resolved_ruby = <<>>
  /\ selected_impl = <<>>
  /\ impl_path = <<>>
  /\ ap = 0
  /\ new_argv = <<>>
  /\ na_alloc = 0
  /\ na_writes = {}
  /\ status = -1
  /\ msg = ""
  /\ exec_call = NoExec
  /\ readlinks = <<>>
  /\ accesses = <<>>
  /\ null_alloc = FALSE

Init ==
  /\ argv \in Argvs
  /\ fs \in FsStates
  /\ InitRest

\* exit(n) after a message on stderr.
Exit(n, m) ==
  /\ pc' = "exited"
  /\ status' = n
  /\ msg' = m

\* die(): message, exit(EXIT_FAILURE).
Die(m) == Exit(1, m)

\* ------------------------------------------------------------- main
\* The help test that knows the short option only.
IsHelp_short(arg) == arg = <<"-h">>

IsHelp(arg) == arg = <<"-h">> \/ arg = <<"--help">>

Main ==
  /\ pc = "main"
  /\ IF Len(argv) < 2 THEN Exit(2, MsgArgs)
     ELSE IF IsHelp(argv[2]) THEN Exit(2, MsgUsage)
     ELSE pc' = "gvi_malloc" /\ UNCHANGED <<status, msg>>
  /\ UNCHANGED <<argv, fs, parse_vars, path_vars, impl_path, ap, argv_vars,
                 exec_call, readlinks, accesses, null_alloc>>

\* -------------------------- get_valid_implementations_and_options
\* do_malloc(sizeof(IMPLEMENTATIONS)); *p = NULL; options->autopick = false.
GviMalloc ==
  /\ pc = "gvi_malloc"
  /\ \E ok \in BOOLEAN :
       IF ok
       THEN /\ vi_alloc' = SizeofImplementations
            /\ valid_implementations' = <<NULL>>
            /\ p' = 1
            /\ autopick' = FALSE
            /\ strtok_save' = argv[2]
            /\ pc' = "gvi_strtok"
            /\ UNCHANGED <<status, msg, null_alloc>>
       ELSE /\ Die(MsgAlloc)
            /\ null_alloc' = TRUE
            /\ UNCHANGED parse_vars
  /\ UNCHANGED <<argv, fs, path_vars, impl_path, ap, argv_vars,
                 exec_call, readlinks, accesses>>

IsAutopick(str) == str = AUTOPICK

\* The acceptance test without the look-up in the array.
GviAccept_nodedup(valid, str) == In(IMPLEMENTATIONS, str)

\* The token is stored: it is not in the array yet and it is a catalog name.
GviAccept(valid, str) ==
  (valid[1] = NULL \/ ~In(valid, str)) /\ In(IMPLEMENTATIONS, str)

\* *p = str; *++p = NULL.
GviStore(valid, q, str) ==
  LET a == [valid EXCEPT ![q] = str]
  IN IF q + 1 <= Len(a) THEN [a EXCEPT ![q + 1] = NULL] ELSE Append(a, NULL)

\* One turn of the strtok loop, or the end of the function when strtok
\* returns NULL.
GviToken ==
  /\ pc = "gvi_strtok"
  /\ LET r == Strtok(strtok_save)
         str == r.tok
     IN IF str = NULL
        THEN /\ IF valid_implementations[1] = NULL
                THEN Die(MsgNoValid)
                ELSE pc' = "resolve_exe" /\ UNCHANGED <<status, msg>>
             /\ UNCHANGED parse_vars
        ELSE /\ strtok_save' = r.rest
             /\ IF IsAutopick(str)
                THEN autopick' = TRUE /\ UNCHANGED <<valid_implementations, p>>
                ELSE IF GviAccept(valid_implementations, str)
                THEN /\ valid_implementations' = GviStore(valid_implementations, p, str)
                     /\ p' = p + 1
                     /\ UNCHANGED autopick
                ELSE UNCHANGED <<valid_implementations, p, autopick>>
             /\ UNCHANGED <<pc, status, msg, vi_alloc>>
  /\ UNCHANGED <<argv, fs, path_vars, impl_path, ap, argv_vars,
                 exec_call, readlinks, accesses, null_alloc>>

\* ------------------------------------------------------ path resolver
\* resolve_path("/proc/self/exe") and dirname() of its result.  strdup may
\* return NULL, which resolve_path returns as it is.
ResolveExe ==
  /\ pc = "resolve_exe"
  /\ readlinks' = Append(readlinks, PROC_SELF_EXE)
  /\ LET r == Readlink(fs, PROC_SELF_EXE)
         size == ReadlinkSize(r)
     IN IF size = -1
        THEN Die(MsgResolve) /\ UNCHANGED <<rubyexec, rubyexec_dir, null_alloc>>
        ELSE IF size >= MAX_PATH_SIZE
        THEN Die(MsgTooLong) /\ UNCHANGED <<rubyexec, rubyexec_dir, null_alloc>>
        ELSE \E ok \in BOOLEAN :
               /\ rubyexec' = IF ok THEN r.target ELSE NULL
               /\ rubyexec_dir' = Dirname(rubyexec')
               /\ null_alloc' = (null_alloc \/ ~ok)
               /\ pc' = "concat_ruby"
               /\ UNCHANGED <<status, msg>>
  /\ UNCHANGED <<argv, fs, parse_vars, ruby, resolved_ruby, selected_impl,
                 impl_path, ap, argv_vars, exec_call, accesses>>

\* strconcat(rubyexec_dir, "/ruby", NULL).
ConcatRuby ==
  /\ pc = "concat_ruby"
  /\ \E ok \in BOOLEAN :
       IF ok
       THEN /\ ruby' = Strconcat(<<rubyexec_dir, <<"/", "ruby">> >>)
            /\ pc' = "resolve_ruby"
            /\ UNCHANGED <<status, msg, null_alloc>>
       ELSE /\ Die(MsgAlloc)
            /\ null_alloc' = TRUE
            /\ UNCHANGED ruby
  /\ UNCHANGED <<argv, fs, parse_vars, rubyexec, rubyexec_dir, resolved_ruby,
                 selected_impl, impl_path, ap, argv_vars, exec_call,
                 readlinks, accesses>>

\* resolve_path(ruby) and basename() of its result.
ResolveRuby ==
  /\ pc = "resolve_ruby"
  /\ readlinks' = Append(readlinks, ruby)
  /\ LET r == Readlink(fs, ruby)
         size == ReadlinkSize(r)
     IN IF size = -1
        THEN Die(MsgResolve) /\ UNCHANGED <<resolved_ruby, selected_impl, null_alloc>>
        ELSE IF size >= MAX_PATH_SIZE
        THEN Die(MsgTooLong) /\ UNCHANGED <<resolved_ruby, selected_impl, null_alloc>>
        ELSE \E ok \in BOOLEAN :
               /\ resolved_ruby' = IF ok THEN r.target ELSE NULL
               /\ selected_impl' = Basename(resolved_ruby')
               /\ null_alloc' = (null_alloc \/ ~ok)
               /\ pc' = "select"
               /\ UNCHANGED <<status, msg>>
  /\ UNCHANGED <<argv, fs, parse_vars, rubyexec, rubyexec_dir, ruby,
                 impl_path, ap, argv_vars, exec_call, accesses>>

\* ----------------------------------------------------------- selector
\* The branch taken when the autopick flag is not consulted.
SelectBranch_noflag(valid, selected, pick) ==
  IF In(valid, selected) THEN "default" ELSE "autopick"

\* The branch main takes at lines 190-197.
SelectBranch(valid, selected, pick) ==
  IF In(valid, selected) THEN "default"
  ELSE IF pick THEN "autopick"
  ELSE "die"

IsAbsolute(path) == path # <<>> /\ Head(path) = "/"

\* The default's path always re-anchored to the directory.
DefaultPath_always(dir, resolved) == Strconcat(<<dir, <<"/">>, resolved>>)

\* The default's path: *resolved_ruby == '/' ? resolved_ruby : dir "/" resolved_ruby.
DefaultPath(dir, resolved) ==
  IF IsAbsolute(resolved) THEN resolved
  ELSE Strconcat(<<dir, <<"/">>, resolved>>)

Select ==
  /\ pc = "select"
  /\ LET b == SelectBranch(valid_implementations, selected_impl, autopick)
     IN IF b = "default"
        THEN \E ok \in BOOLEAN :
               IF ok \/ IsAbsolute(resolved_ruby)
               THEN /\ impl_path' = DefaultPath(rubyexec_dir, resolved_ruby)
                    /\ pc' = "create_new_argv"
                    /\ UNCHANGED <<status, msg, null_alloc, ap>>
               ELSE /\ Die(MsgAlloc)
                    /\ null_alloc' = TRUE
                    /\ UNCHANGED <<impl_path, ap>>
        ELSE IF b = "autopick"
        THEN /\ pc' = "autopick"
             /\ ap' = 1
             /\ UNCHANGED <<status, msg, null_alloc, impl_path>>
        ELSE /\ Die(MsgUnsupported)
             /\ UNCHANGED <<null_alloc, impl_path, ap>>
  /\ UNCHANGED <<argv, fs, parse_vars, path_vars, argv_vars, exec_call,
                 readlinks, accesses>>

\* The candidate path without its separator.
CandidatePath_nosep(dir, name) == Strconcat(<<dir, name>>)

\* The path autopick_implementation probes for a name.
CandidatePath(dir, name) == Strconcat(<<dir, <<"/">>, name>>)

\* One turn of autopick_implementation's loop, or its end at the NULL entry.
Autopick ==
  /\ pc = "autopick"
  /\ IF valid_implementations[ap] = NULL
     THEN /\ Die(MsgNoUsable)
          /\ UNCHANGED <<impl_path, ap, accesses, null_alloc>>
     ELSE \E ok \in BOOLEAN :
            IF ok
            THEN LET path == CandidatePath(rubyexec_dir, valid_implementations[ap])
                 IN /\ accesses' = Append(accesses, path)
                    /\ IF Access(fs, path)
                       THEN /\ impl_path' = path
                            /\ pc' = "create_new_argv"
                            /\ UNCHANGED ap
                       ELSE /\ ap' = ap + 1
                            /\ UNCHANGED <<impl_path, pc>>
                    /\ UNCHANGED <<status, msg, null_alloc>>
            ELSE /\ Die(MsgAlloc)
                 /\ null_alloc' = TRUE
                 /\ UNCHANGED <<impl_path, ap, accesses>>
  /\ UNCHANGED <<argv, fs, parse_vars, path_vars, argv_vars, exec_call, readlinks>>

\* ------------------------------------------------------- exec launcher
\* The bytes create_new_argv asks do_malloc for.
NaAllocSize(argc) == argc

\* The slots create_new_argv writes: 0, i - 1 for i in 2..argc-1, argc - 1.
NaWrites(argc) == {0} \cup {i - 1 : i \in 2..(argc - 1)} \cup {argc - 1}

\* A write of pointer slot k lies inside a block of alloc bytes.
InBlock(alloc, k) == (k + 1) * SizeofPtr <= alloc

\* The vector the function's assignments describe.
NaVector(args, a0) ==
  <<a0>> \o [k \in 1..(Len(args) - 2) |-> args[k + 2]] \o <<NULL>>

GARBAGE == <<"<garbage>">>

\* What the caller can find in the vector.  Writes past the end of the block
\* are undefined behaviour: the vector may come out as written, or with the
\* neighbouring heap block (the copy of the path that slot 0 points to)
\* overwritten, or the process is killed.
NaOutcomes(alloc, args, a0) ==
  IF \A k \in NaWrites(Len(args)) : InBlock(alloc, k)
  THEN {[crash |-> FALSE, vec |-> NaVector(args, a0)]}
  ELSE {[crash |-> FALSE, vec |-> NaVector(args, a0)],
        [crash |-> FALSE, vec |-> NaVector(args, GARBAGE)],
        [crash |-> TRUE, vec |-> <<>>]}

CreateNewArgv ==
  /\ pc = "create_new_argv"
  /\ \E ok \in BOOLEAN :
       IF ok
       THEN \E dup \in BOOLEAN :
            \E o \in NaOutcomes(NaAllocSize(Len(argv)), argv,
                                IF dup THEN impl_path ELSE NULL) :
              /\ na_alloc' = NaAllocSize(Len(argv))
              /\ na_writes' = NaWrites(Len(argv))
              /\ null_alloc' = (null_alloc \/ ~dup)
              /\ new_argv' = o.vec
              /\ pc' = IF o.crash THEN "crashed" ELSE "execv"
              /\ UNCHANGED <<status, msg>>
       ELSE /\ Die(MsgAlloc)
            /\ null_alloc' = TRUE
            /\ UNCHANGED argv_vars
  /\ UNCHANGED <<argv, fs, parse_vars, path_vars, impl_path, ap, exec_call,
                 readlinks, accesses>>

\* execv(impl_path, new_argv): the image is replaced, or execv returns and
\* main dies.
Execv ==
  /\ pc = "execv"
  /\ exec_call' = [called |-> TRUE, path |-> impl_path, argv |-> new_argv]
  /\ \E ok \in BOOLEAN :
       IF ok /\ Access(fs, impl_path)
       THEN pc' = "execed" /\ UNCHANGED <<status, msg>>
       ELSE Die(MsgExec)
  /\ UNCHANGED <<argv, fs, parse_vars, path_vars, impl_path, ap, argv_vars,
                 readlinks, accesses, null_alloc>>

Next ==
  \/ Main
  \/ GviMalloc
  \/ GviToken
  \/ ResolveExe
  \/ ConcatRuby
  \/ ResolveRuby
  \/ Select
  \/ Autopick
  \/ CreateNewArgv
  \/ Execv

Spec == Init /\ [][Next]_vars

\* ------------------------------------------------------- parser runs
\* Runs of main up to the return of get_valid_implementations_and_options,
\* on every spec argument of up to MaxSpecLen atoms and on long repetitions.
ParseAtoms == {",", "ruby27", "ruby30", "--autopick", "x"}

RECURSIVE Repeat(_, _)
Repeat(s, k) == IF k = 0 THEN <<>> ELSE s \o Repeat(s, k - 1)

LongSpecs ==
  {Repeat(JoinComma(t) \o <<",">>, k) :
     t \in SeqsUpTo(SpecWords, 2) \ {<<>>}, k \in 1..MaxRepeat}

ParseSpecs == SeqsUpTo(ParseAtoms, MaxSpecLen) \cup LongSpecs

InitParse ==
  /\ argv \in {<<ExePath, s>> : s \in ParseSpecs}
  /\ fs = [link |-> BaseLinks, files |-> {UsrRuby30}]
  /\ InitRest

NextParse ==
  \/ Main
  \/ GviMalloc
  \/ GviToken

SpecParse == InitParse /\ [][NextParse]_vars

\* ------------------------------------------------------------ claims
\* The tokens of a comma-separated string, stated without strtok: a token is
\* a maximal non-empty stretch without a comma, given by its first and last
\* position.
TokenSpans(s) ==
  {sp \in (1..Len(s)) \X (1..Len(s)) :
     /\ sp[1] <= sp[2]
     /\ \A k \in sp[1]..sp[2] : s[k] # ","
     /\ (sp[1] = 1 \/ s[sp[1] - 1] = ",")
     /\ (sp[2] = Len(s) \/ s[sp[2] + 1] = ",")}

TokenAt(s, sp) == SubSeq(s, sp[1], sp[2])

TokensOf(s) == {TokenAt(s, sp) : sp \in TokenSpans(s)}

CatalogNames == {IMPLEMENTATIONS[i] : i \in 1..(Len(IMPLEMENTATIONS) - 1)}

\* Where the token n first starts in s.
FirstPos(s, n) ==
  LET starts == {sp[1] : sp \in {q \in TokenSpans(s) : TokenAt(s, q) = n}}
  IN CHOOSE i \in starts : \A j \in starts : i <= j

\* The names of a preference array: its entries before the last slot written.
Names(valid) == SubSeq(valid, 1, Len(valid) - 1)

\* The default-runtime name has been derived (line 187 has run).
Resolved == selected_impl # <<>>

\* The file a path names exists, links followed.
OnDisk(path) == RealPath(fs, path, {}) \in fs.files

\* C1: when get_valid_implementations_and_options is done with a spec string,
\* the array holds exactly the first occurrences of the tokens that are
\* catalog names, in the order of the spec, then NULL, and the autopick flag
\* is set iff some token is "--autopick"; other tokens contribute nothing.
C1_FirstOccurrences ==
  (pc = "resolve_exe" \/ (pc = "exited" /\ msg = MsgNoValid)) =>
    LET s == argv[2]
        r == Names(valid_implementations)
    IN /\ valid_implementations[Len(valid_implementations)] = NULL
       /\ {r[k] : k \in DOMAIN r} = TokensOf(s) \cap CatalogNames
       /\ \A k, l \in DOMAIN r : k < l => FirstPos(s, r[k]) < FirstPos(s, r[l])
       /\ autopick = (AUTOPICK \in TokensOf(s))
       /\ (pc = "exited") = (r = <<>>)

C1_Witness ==
  /\ pc = "resolve_exe"
  /\ argv[2] = <<"ruby27", ",", "ruby27", ",", "ruby30">>
  /\ valid_implementations = << <<"ruby27">>, <<"ruby30">>, NULL >>
  /\ ~autopick

\* C10: while the tokens are consumed the array is NULL-terminated at the
\* cursor, free of duplicates and holds at most 16 names, so every slot
\* written lies in the sizeof(IMPLEMENTATIONS) bytes allocated.
C10_ArrayBounded ==
  valid_implementations # <<>> =>
    LET n == Len(valid_implementations)
        r == Names(valid_implementations)
    IN /\ p = n
       /\ valid_implementations[n] = NULL
       /\ \A k \in DOMAIN r : r[k] # NULL
       /\ \A k, l \in DOMAIN r : k # l => r[k] # r[l]
       /\ Len(r) <= Len(IMPLEMENTATIONS) - 1
       /\ n * SizeofPtr <= vi_alloc

\* A spec with more than 16 catalog tokens has been consumed.
C10_Witness ==
  /\ pc = "resolve_exe"
  /\ Cardinality({sp \in TokenSpans(argv[2]) : TokenAt(argv[2], sp) \in CatalogNames})
       > Len(IMPLEMENTATIONS) - 1
  /\ Len(valid_implementations) = 3

\* C2: when the default-runtime name is in the preference list, no candidate
\* is ever probed with access, and the path given to execv is the default's
\* resolved target: as it is when it starts with "/", otherwise behind the
\* executable's directory and "/"; with or without autopick, whatever files
\* exist.
C2_DefaultChosen ==
  (Resolved /\ In(valid_implementations, selected_impl)) =>
    /\ accesses = <<>>
    /\ rubyexec # NULL => rubyexec_dir = ExeDir
    /\ exec_call.called =>
         exec_call.path =
           IF Head(resolved_ruby) = "/" THEN resolved_ruby
           ELSE rubyexec_dir \o <<"/">> \o resolved_ruby

\* The default is relative and in the list, autopick is set and another
\* listed candidate exists on disk.
C2_Witness ==
  /\ exec_call.called
  /\ autopick
  /\ resolved_ruby = <<"ruby27">>
  /\ valid_implementations = << <<"ruby30">>, <<"ruby27">>, NULL >>
  /\ OnDisk(Sibling(ExeDir, <<"ruby30">>))
  /\ exec_call.path = Sibling(ExeDir, <<"ruby27">>)

C3_WitnessExhausted ==
  /\ pc = "exited"
  /\ msg = MsgNoUsable
  /\ Len(accesses) = 2

\* C4: when the default-runtime name is not in the list and autopick is not
\* set, the run makes no access test and no execv and can only end with the
\* "does not support currently selected" message and status 1, whatever the
\* directory holds.
C4_Unsupported ==
  (Resolved /\ ~In(valid_implementations, selected_impl) /\ ~autopick) =>
    /\ accesses = <<>>
    /\ ~exec_call.called
    /\ pc \in {"select", "exited"}
    /\ pc = "exited" => (status = 1 /\ msg = MsgUnsupported)

\* The run has ended that way although a listed implementation is on disk.
C4_Witness ==
  /\ pc = "exited"
  /\ msg = MsgUnsupported
  /\ In(valid_implementations, <<"ruby27">>)
  /\ OnDisk(Sibling(ExeDir, <<"ruby27">>))

\* C5: the vector given to execv has argc-1 entries before its NULL: the
\* selected path, then the original arguments from the third on, unchanged
\* and in order.
C5_ArgvRebuilt ==
  exec_call.called =>
    exec_call.argv =
      <<impl_path>> \o SubSeq(argv, 3, Len(argv)) \o <<NULL>>

\* C6: a run with -h or --help first (status 2), with fewer than two
\* arguments (status 2) or with a spec without any catalog name ("No valid
\* implementations found", status 1) ends without any readlink, access or
\* execv.
C6_ArgumentFailuresFirst ==
  LET argc == Len(argv)
      help == argc >= 2 /\ (argv[2] = <<"-h">> \/ argv[2] = <<"--help">>)
      nocat == argc >= 2 /\ ~help /\ TokensOf(argv[2]) \cap CatalogNames = {}
  IN /\ (argc < 2 \/ help \/ nocat) =>
          /\ readlinks = <<>> /\ accesses = <<>> /\ ~exec_call.called
          /\ pc \in {"main", "gvi_malloc", "gvi_strtok", "exited"}
     /\ (pc = "exited" /\ argc < 2) => (status = 2 /\ msg = MsgArgs)
     /\ (pc = "exited" /\ help) => (status = 2 /\ msg = MsgUsage)
     /\ (pc = "exited" /\ nocat) =>
          (status = 1 /\ msg = IF null_alloc THEN MsgAlloc ELSE MsgNoValid)
     /\ (pc = "exited" /\ msg \in {MsgArgs, MsgUsage, MsgNoValid}) =>
          (readlinks = <<>> /\ accesses = <<>> /\ ~exec_call.called)

\* --help with further arguments has ended the run, on a filesystem where
\* the resolution would have succeeded.
C6_Witness ==
  /\ pc = "exited"
  /\ status = 2
  /\ Len(argv) > 2
  /\ argv[2] = <<"--help">>
  /\ RubyLink \in DOMAIN fs.link

\* C7: once a malloc or strdup has returned NULL the run is over: it has
\* printed the allocation message and exited with status 1, and no later step
\* runs.
C7_AllocFailureFatal ==
  null_alloc => (pc = "exited" /\ status = 1 /\ msg = MsgAlloc)

\* C8 as claimed: the resolver yields the fully dereferenced target of
\* <dir>/ruby and the selected name is the last component of that target
\* (stated for the runs in which every allocation succeeded).
C8_FullyDereferenced ==
  (Resolved /\ ~null_alloc) =>
    /\ Anchor(RubyLink, resolved_ruby) = RealPath(fs, RubyLink, {})
    /\ selected_impl = <<RealPath(fs, RubyLink, {})[Len(RealPath(fs, RubyLink, {}))]>>

\* C8 amended: whenever the resolver returns a path for the link it reads,
\* <directory>/ruby, that path is what the link itself holds (one readlink,
\* not followed further), and the selected name is its last component; the
\* directory is the executable's whenever the executable's path was returned.
C8_OneLevel ==
  (Resolved /\ resolved_ruby # NULL) =>
    /\ ruby = rubyexec_dir \o <<"/", "ruby">>
    /\ rubyexec # NULL => ruby = RubyLink
    /\ ruby \in DOMAIN fs.link
    /\ resolved_ruby = fs.link[ruby].target
    /\ selected_impl = <<resolved_ruby[Len(resolved_ruby)]>>

\* <dir>/ruby points to ruby27, itself a link to ruby30: ruby27 is selected.
C8_Witness ==
  /\ Resolved
  /\ ruby = RubyLink
  /\ Sibling(ExeDir, <<"ruby27">>) \in DOMAIN fs.link
  /\ selected_impl = <<"ruby27">>
  /\ RealPath(fs, RubyLink, {}) = Sibling(ExeDir, <<"ruby30">>)

\* C9: every slot create_new_argv writes lies inside the block it allocated.
C9_WritesInBlock ==
  \A k \in na_writes : (k + 1) * SizeofPtr <= na_alloc

====
